---- MODULE Spec2Model ----
(***************************************************************************)
(* Branch selection for EV swap trips: the route-proximity filter          *)
(* (findNearbyBranchesFromPolyline) and the best-branch selection          *)
(* (getBestBranchWithAvailableEV) of                                       *)
(* src/components/functions/filtering/branches_with_el_cars.ts.            *)
(*                                                                         *)
(* Numbers.  Coordinates lie on one meridian, on a grid of latitudes; on a *)
(* meridian the haversine distance is R * |dLat|, so a grid step is a      *)
(* fixed number of metres (MetersPerStep) and every distance is an exact   *)
(* integer.  A float that may be Infinity or NaN (the score) is a record   *)
(* [kind, num, den] with the IEEE comparison rules.                        *)
(*                                                                         *)
(* Text.  A car id is a sequence of characters, so that trim() and         *)
(* startsWith("E") are computed.  A CSV cell holding a number is a record  *)
(* saying whether parseFloat can read it; a cell holding a serialized      *)
(* array is a record saying what JSON.parse makes of it.                   *)
(*                                                                         *)
(* Time.  An instant is a number of hours; a timestamp text is a record    *)
(* [form, day, hour]; the process has a time-zone offset tz (hours east of *)
(* UTC).  A calendar date YYYY-MM-DD is its day number.                    *)
(*                                                                         *)
(* Specifications.  Spec runs one invocation on varied routes, fleets and  *)
(* bookings; SpecRows runs it on rows with missing or unreadable fields;   *)
(* SpecAgain invokes it a second time on the same arguments and rows.      *)
(***************************************************************************)
EXTENDS Integers, Sequences, FiniteSets, TLC

(* ------------------------------ bounds -------------------------------- *)

MaxPathLen == 2

MaxBranches == 2

MaxCars == 2

MaxTrips == 2

MetersPerStep == 500

MaxRequests == 2

MaxDays == 1

MaxClicks == 3

(* ------------------------- program constants -------------------------- *)

CallerDistanceThreshold == 1000

CallerRangeThreshold == 100

(* ------------------------------ values -------------------------------- *)

NULL == [null |-> TRUE]

Abs(x) == IF x < 0 THEN -x ELSE x

SeqsUpTo(S, n) == UNION {[1..k -> S] : k \in 0..n}

\* A cell whose text parseFloat reads as the number v, and one it cannot read.
NumCell(v) == [numeric |-> TRUE, v |-> v]

BadNumCell == [numeric |-> FALSE, v |-> 0]

\* parseFloat: the number read from the cell's text, or NaN.
parseFloat(cell) ==
  IF cell.numeric THEN [nan |-> FALSE, v |-> cell.v] ELSE [nan |-> TRUE, v |-> 0]

\* A string that is present, and a missing column (undefined).
Str(s) == [def |-> TRUE, s |-> s]

Undefined == [def |-> FALSE, s |-> <<>>]

RECURSIVE trimStart(_)
trimStart(s) ==
  IF Len(s) > 0 /\ s[1] = " " THEN trimStart(Tail(s)) ELSE s

RECURSIVE trimEnd(_)
trimEnd(s) ==
  IF Len(s) > 0 /\ s[Len(s)] = " " THEN trimEnd(SubSeq(s, 1, Len(s) - 1)) ELSE s

\* String.prototype.trim
trim(s) == trimEnd(trimStart(s))

\* String.prototype.startsWith, for a one-character prefix
startsWith(s, c) == Len(s) >= 1 /\ s[1] = c

(* ------------------------- serialized arrays -------------------------- *)

\* The cells a branch's `cars` column or a car's `trips_ids` column may hold:
\* no cell, text JSON.parse rejects after quote normalization, a list of
\* strings, and text that is valid JSON but no list ('E1', 7, null).
AbsentCell == [kind |-> "absent", items |-> <<>>]

BrokenCell == [kind |-> "broken", items |-> <<>>]

ListCell(items) == [kind |-> "list", items |-> items]

NonListCell == [kind |-> "nonlist", items |-> <<>>]

\* parseStringArray: [] for a missing or empty cell and when JSON.parse throws;
\* otherwise whatever JSON.parse returned, cast (unchecked) to string[].
parseStringArray(cell) ==
  CASE cell.kind = "absent" -> [isArray |-> TRUE, items |-> <<>>]
    [] cell.kind = "broken" -> [isArray |-> TRUE, items |-> <<>>]
    [] cell.kind = "list" -> [isArray |-> TRUE, items |-> cell.items]
    [] OTHER -> [isArray |-> FALSE, items |-> <<>>]

(* ------------------------------- time --------------------------------- *)

DateOnly(day) == [form |-> "date", day |-> day, hour |-> 0]

UtcTime(day, hour) == [form |-> "utc", day |-> day, hour |-> hour]

LocalTime(day, hour) == [form |-> "local", day |-> day, hour |-> hour]

BadTime == [form |-> "bad", day |-> 0, hour |-> 0]

EmptyTime == [form |-> "empty", day |-> 0, hour |-> 0]

AbsentTime == [form |-> "absent", day |-> 0, hour |-> 0]

\* Date.parse / new Date(text): the instant (hours since day 0, 00:00 UTC) the
\* text denotes.  A date-only text YYYY-MM-DD is midnight UTC; a date-time with
\* Z is UTC; a date-time without offset is local time.  NaN when unreadable.
DateParse(ts, zone) ==
  CASE ts.form = "date" -> [nan |-> FALSE, v |-> 24 * ts.day]
    [] ts.form = "utc" -> [nan |-> FALSE, v |-> 24 * ts.day + ts.hour]
    [] ts.form = "local" ->
         [nan |-> FALSE, v |-> 24 * ts.day + ts.hour - zone]
    [] OTHER -> [nan |-> TRUE, v |-> 0]

\* toLocalDate: getFullYear/getMonth/getDate of new Date(date), read in the
\* process's zone, formatted YYYY-MM-DD (the day number of the local date).
\* An invalid Date formats as "NaN-NaN-NaN", the text of no date (-1).
toLocalDate(ts, zone) ==
  IF DateParse(ts, zone).nan THEN -1
  ELSE (DateParse(ts, zone).v + zone) \div 24

(* ----------------------------- geometry ------------------------------- *)

Point(lat, lng) == [lat |-> lat, lng |-> lng]

\* polyline.decode: the codec stores the first point and then the difference of
\* each point to the one before it; decoding sums the differences.
RECURSIVE PolylineDecodeFrom(_, _, _)
PolylineDecodeFrom(enc, k, prev) ==
  IF k > Len(enc) THEN <<>>
  ELSE LET cur == <<prev[1] + enc[k][1], prev[2] + enc[k][2]>>
       IN <<cur>> \o PolylineDecodeFrom(enc, k + 1, cur)

PolylineDecode(enc) == PolylineDecodeFrom(enc, 1, <<0, 0>>)

\* polyline.encode: the differences of consecutive points.
PolylineEncode(pts) ==
  [k \in 1..Len(pts) |->
     IF k = 1 THEN pts[1]
     ELSE <<pts[k][1] - pts[k - 1][1], pts[k][2] - pts[k - 1][2]>>]

\* getDistance: haversine distance in metres.  For two points of one meridian
\* (dLng = 0) a = sin^2(dLat/2) and c = |dLat|, so the distance is R * |dLat|:
\* MetersPerStep for each grid step of latitude.
getDistance(p1, p2) == MetersPerStep * Abs(p2.lat - p1.lat)

(* --------------------- findNearbyBranchesFromPolyline ----------------- *)

\* MinScan with <= for <: among equally close points the last one wins.
RECURSIVE MinScanLastWins(_, _, _, _)
MinScanLastWins(decoded, coords, k, acc) ==
  IF k > Len(decoded) THEN acc
  ELSE LET d == getDistance(decoded[k], coords)
       IN MinScanLastWins(decoded, coords, k + 1,
                  IF ~acc.found \/ d <= acc.minDist
                    THEN [found |-> TRUE, minDist |-> d, minLoc |-> decoded[k]]
                    ELSE acc)

\* The scan of lines 148-156: minDist starts at Infinity (found = FALSE) and a
\* point replaces the minimum only when strictly closer.
RECURSIVE MinScan(_, _, _, _)
MinScan(decoded, coords, k, acc) ==
  IF k > Len(decoded) THEN acc
  ELSE LET d == getDistance(decoded[k], coords)
       IN MinScan(decoded, coords, k + 1,
                  IF ~acc.found \/ d < acc.minDist
                    THEN [found |-> TRUE, minDist |-> d, minLoc |-> decoded[k]]
                    ELSE acc)

\* The bound of the doc comment (the whole start-to-end distance) for 0.6 of it.
BeyondForwardBoundFullLength(distStartToBranch, distStartToEnd) ==
  distStartToBranch > distStartToEnd

\* distStartToBranch > distStartToEnd * 0.6.  The comparison is strict; the
\* product is taken exactly here, where the code rounds it to a double.
BeyondForwardBound(distStartToBranch, distStartToEnd) ==
  5 * distStartToBranch > 3 * distStartToEnd

\* ExceedsThreshold with the comparison turned round.
ExceedsThresholdInverted(minDist, threshold) == minDist < threshold

\* minDist > DISTANCE_THRESHOLD
ExceedsThreshold(minDist, threshold) == minDist > threshold

\* The callback of branches.map (lines 131-168): a NearbyBranchResult or null.
NearbyOfBranch(threshold, decoded, branch) ==
  LET lat == parseFloat(branch.Lat)
      lng == parseFloat(branch.Lng)
  IN IF lat.nan \/ lng.nan THEN NULL
     ELSE LET coords == Point(lat.v, lng.v)
              startPoint == decoded[1]
              endPoint == decoded[Len(decoded)]
              distStartToEnd == getDistance(startPoint, endPoint)
              distStartToBranch == getDistance(startPoint, coords)
          IN IF BeyondForwardBound(distStartToBranch, distStartToEnd) THEN NULL
             ELSE LET m == MinScan(decoded, coords, 1,
                                   [found |-> FALSE, minDist |-> 0,
                                    minLoc |-> NULL])
                  IN IF ExceedsThreshold(m.minDist, threshold) THEN NULL
                     ELSE [Name |-> branch.Name,
                           distanceToRoute_meters |-> m.minDist,
                           minDistanceLocation |-> m.minLoc]

\* NearbyMapped with the guard decoded.length < 1 for decoded.length < 2.
NearbyMappedOffByOne(threshold, decoded, rows) ==
  IF Len(decoded) < 1 THEN <<>>
  ELSE [i \in 1..Len(rows) |-> NearbyOfBranch(threshold, decoded, rows[i])]

\* branches.map(...) of lines 130-168: one entry per branch row, null or result.
NearbyMapped(threshold, decoded, rows) ==
  IF Len(decoded) < 2 THEN <<>>
  ELSE [i \in 1..Len(rows) |-> NearbyOfBranch(threshold, decoded, rows[i])]

\* .filter(x => x !== null)
FilterNonNull(mapped) == SelectSeq(mapped, LAMBDA x : x # NULL)

\* The decoded path of lines 116-118.
DecodedPath(enc) ==
  LET raw == PolylineDecode(enc)
  IN [k \in 1..Len(raw) |-> Point(raw[k][1], raw[k][2])]

(* -------------------- getBestBranchWithAvailableEV -------------------- *)

\* nearbyMap = new Map(nearbyBranches.map(b => [b.Name, b])): a later entry of
\* the same Name replaces an earlier one.
NearbyMapHas(nearby, name) == \E k \in 1..Len(nearby) : nearby[k].Name = name

NearbyMapGet(nearby, name) ==
  LET last == CHOOSE k \in 1..Len(nearby) :
                /\ nearby[k].Name = name
                /\ \A l \in (k + 1)..Len(nearby) : nearby[l].Name # name
  IN nearby[last]

\* IsEvId without the prefix test: any non-empty id counts as an EV.
IsEvIdNonEmpty(id) == Len(trim(id)) >= 1

\* id => id.trim().startsWith("E")
IsEvId(id) == startsWith(trim(id), "E")

\* carIds.some(...) and parseStringArray(...).filter(...) are called on whatever
\* parseStringArray returned; a value that is no array has neither method.
CarsCellThrows(branch) == ~parseStringArray(branch.cars).isArray

\* The filter callback of lines 237-242.
KeepsBranch(nearby, branch) ==
  LET carIds == parseStringArray(branch.cars).items
      hasEv == \E j \in 1..Len(carIds) : IsEvId(carIds[j])
  IN NearbyMapHas(nearby, branch.Name) /\ hasEv

\* The map callback of lines 243-255.
BranchWithEVs(nearby, branch) ==
  LET nearbyInfo == NearbyMapGet(nearby, branch.Name)
  IN [branch |-> branch.Name,
      lat |-> parseFloat(branch.Lat),
      lng |-> parseFloat(branch.Lng),
      distanceToRoute_meters |-> nearbyInfo.distanceToRoute_meters,
      minDistanceLocation |-> nearbyInfo.minDistanceLocation,
      electric_car_ids |-> SelectSeq(parseStringArray(branch.cars).items, IsEvId)]

\* branchesWithEVs (lines 236-255)
BranchesWithEVs(nearby, rows) ==
  LET kept == SelectSeq(rows, LAMBDA b : KeepsBranch(nearby, b))
  IN [k \in 1..Len(kept) |-> BranchWithEVs(nearby, kept[k])]

\* Map.prototype.set
MapSet(m, key, val) ==
  [x \in (DOMAIN m) \cup {key} |-> IF x = key THEN val ELSE m[x]]

\* IsHighRangeEv with >= for >: a range equal to the threshold is enough.
IsHighRangeEvAtLeast(car, rangeThreshold) ==
  LET r == parseFloat(car.range_km)
  IN car.type = "electric" /\ ~r.nan /\ r.v >= rangeThreshold

\* car.type === "electric" && parseFloat(car.range_km) > RANGE_THRESHOLD
\* (a comparison with NaN is false)
IsHighRangeEv(car, rangeThreshold) ==
  LET r == parseFloat(car.range_km)
  IN car.type = "electric" /\ ~r.nan /\ r.v > rangeThreshold

\* car.id.trim() on a row without an id column
CarIdThrows(car, rangeThreshold) ==
  IsHighRangeEv(car, rangeThreshold) /\ ~car.id.def

\* highRangeEvMap after cars.forEach (lines 260-268), rows k..Len(cars)
RECURSIVE HighRangeEvMapFrom(_, _, _, _)
HighRangeEvMapFrom(rows, rangeThreshold, k, m) ==
  IF k > Len(rows) THEN m
  ELSE HighRangeEvMapFrom(rows, rangeThreshold, k + 1,
         IF IsHighRangeEv(rows[k], rangeThreshold)
           THEN MapSet(m, trim(rows[k].id.s),
                       [id |-> rows[k].id, type |-> rows[k].type,
                        range_km |-> rows[k].range_km,
                        trips_ids |-> rows[k].trips_ids,
                        trips |-> parseStringArray(rows[k].trips_ids).items])
           ELSE m)

HighRangeEvMap(rows, rangeThreshold) ==
  HighRangeEvMapFrom(rows, rangeThreshold, 1, <<>>)

\* CandidatesOfBranch with unshift for push: each candidate goes to the front.
RECURSIVE CandidatesOfBranchUnshift(_, _, _)
CandidatesOfBranchUnshift(b, evMap, j) ==
  IF j > Len(b.electric_car_ids) THEN <<>>
  ELSE LET ev == b.electric_car_ids[j]
           rest == CandidatesOfBranchUnshift(b, evMap, j + 1)
       IN IF trim(ev) \in DOMAIN evMap
            THEN rest \o <<[branch |-> b.branch,
                            lat |-> b.lat,
                            lng |-> b.lng,
                            distanceToRoute_meters |-> b.distanceToRoute_meters,
                            minDistanceLocation |-> b.minDistanceLocation,
                            ev_id |-> trim(ev),
                            trip_ids |-> evMap[trim(ev)].trips]>>
            ELSE rest

\* The inner forEach of lines 284-297: the candidates of one branch, EV ids
\* j..Len(electric_car_ids) in order.
RECURSIVE CandidatesOfBranch(_, _, _)
CandidatesOfBranch(b, evMap, j) ==
  IF j > Len(b.electric_car_ids) THEN <<>>
  ELSE LET ev == b.electric_car_ids[j]
           rest == CandidatesOfBranch(b, evMap, j + 1)
       IN IF trim(ev) \in DOMAIN evMap
            THEN <<[branch |-> b.branch,
                    lat |-> b.lat,
                    lng |-> b.lng,
                    distanceToRoute_meters |-> b.distanceToRoute_meters,
                    minDistanceLocation |-> b.minDistanceLocation,
                    ev_id |-> trim(ev),
                    trip_ids |-> evMap[trim(ev)].trips]>> \o rest
            ELSE rest

\* The outer forEach of lines 283-298, branches k..Len(bwe) in order.
RECURSIVE CandidatesFrom(_, _, _)
CandidatesFrom(bwe, evMap, k) ==
  IF k > Len(bwe) THEN <<>>
  ELSE CandidatesOfBranch(bwe[k], evMap, 1) \o CandidatesFrom(bwe, evMap, k + 1)

Candidates(bwe, evMap) == CandidatesFrom(bwe, evMap, 1)

\* TripTimeStr with the two columns swapped: the arrival time is preferred.
TripTimeStrArrivalFirst(trip) ==
  IF trip.arrival_time.form \notin {"absent", "empty"}
    THEN trip.arrival_time ELSE trip.departure_time

\* trip.departure_time?.trim() || trip.arrival_time?.trim(): a missing or empty
\* departure time falls through to the arrival time.
Falsy(ts) == ts.form \in {"absent", "empty"}

TripTimeStr(trip) ==
  IF ~Falsy(trip.departure_time) THEN trip.departure_time ELSE trip.arrival_time

\* The early return of line 307.
SkipsTrip(trip, zone) ==
  \/ ~trip.car_id.def
  \/ trim(trip.car_id.s) = <<>>
  \/ Falsy(TripTimeStr(trip))
  \/ DateParse(TripTimeStr(trip), zone).nan

\* bookedMap after trips.forEach (lines 303-311), rows k..Len(trips)
RECURSIVE BookedMapFrom(_, _, _, _)
BookedMapFrom(rows, zone, k, m) ==
  IF k > Len(rows) THEN m
  ELSE BookedMapFrom(rows, zone, k + 1,
         IF SkipsTrip(rows[k], zone) THEN m
         ELSE LET id == trim(rows[k].car_id.s)
                  d == toLocalDate(TripTimeStr(rows[k]), zone)
                  old == IF id \in DOMAIN m THEN m[id] ELSE <<>>
              IN MapSet(m, id, Append(old, d)))

BookedMap(rows, zone) == BookedMapFrom(rows, zone, 1, <<>>)

\* (bookedMap.get(c.ev_id) || []).includes(desiredDate)
IsBooked(booked, c, date) ==
  /\ c.ev_id \in DOMAIN booked
  /\ \E k \in 1..Len(booked[c.ev_id]) : booked[c.ev_id][k] = date

\* freeCandidates (lines 314-316)
FreeCandidates(cands, booked, date) ==
  SelectSeq(cands, LAMBDA c : ~IsBooked(booked, c, date))

(* ------------------------------ scoring ------------------------------- *)

Fin(n, d) == [kind |-> "fin", num |-> n, den |-> d]

Infinity == [kind |-> "inf", num |-> 1, den |-> 0]

NaN == [kind |-> "nan", num |-> 0, den |-> 0]

\* getDistance({lat: c.lat, lng: c.lng}, c.minDistanceLocation): NaN when a
\* coordinate of the candidate is NaN.
DistToMin(c) ==
  IF c.lat.nan \/ c.lng.nan THEN [nan |-> TRUE, v |-> 0]
  ELSE [nan |-> FALSE,
        v |-> getDistance(Point(c.lat.v, c.lng.v), c.minDistanceLocation)]

\* c.distanceToRoute_meters / distToMin in IEEE arithmetic, both operands >= 0:
\* x/NaN = NaN, 0/0 = NaN, x/0 = Infinity for x > 0.
FloatDiv(n, d) ==
  IF d.nan THEN NaN
  ELSE IF d.v = 0 THEN (IF n = 0 THEN NaN ELSE Infinity)
  ELSE Fin(n, d.v)

\* a < b in IEEE arithmetic: false when either is NaN.
FloatLess(a, b) ==
  CASE a.kind = "fin" /\ b.kind = "fin" -> a.num * b.den < b.num * a.den
    [] a.kind = "fin" /\ b.kind = "inf" -> TRUE
    [] OTHER -> FALSE

\* The map callback of lines 322-332.
Scored(c) ==
  LET distToMin == DistToMin(c)
  IN [branch |-> c.branch,
      lat |-> c.lat,
      lng |-> c.lng,
      distanceToRoute_meters |-> c.distanceToRoute_meters,
      minDistanceLocation |-> c.minDistanceLocation,
      ev_id |-> c.ev_id,
      trip_ids |-> c.trip_ids,
      distanceToMinLocation_meters |-> distToMin,
      distanceRatio |-> FloatDiv(c.distanceToRoute_meters, distToMin)]

\* The reduce callback of lines 334-336.
PickBetter(best, cur) ==
  IF FloatLess(cur.distanceRatio, best.distanceRatio) THEN cur ELSE best

\* scored.reduce(...) without an initial value: starts from the first element.
RECURSIVE ReduceFrom(_, _, _)
ReduceFrom(list, k, best) ==
  IF k > Len(list) THEN best
  ELSE ReduceFrom(list, k + 1, PickBetter(best, list[k]))

PickBest(list) == ReduceFrom(list, 2, list[1])

(* ------------------------------- state -------------------------------- *)

VARIABLES
  DISTANCE_THRESHOLD, RANGE_THRESHOLD, TIME, encoded,  \* the arguments
  branches, cars, trips,        \* the rows readCsv returned (line 215)
  tz,                           \* the process's time zone, hours east of UTC
  pc,                           \* the position inside getBestBranchWithAvailableEV
  decoded, nearbyMapped, nearbyBranches,  \* findNearbyBranchesFromPolyline
  branchesWithEVs, highRangeEvMap, candidates,
  bookedMap, desiredDate, freeCandidates, scored,
  result,                       \* the value returned (NULL is null)
  snapshot                      \* the rows as loaded and, after a first
                                \* invocation, how it ended

\* The server process of app/api/plan-trip/route.ts.
VARIABLES
  clock,          \* the current day (UTC calendar date, as a day number)
  TRIP_DATE,      \* the module-level constant of line 18
  apiKey,         \* whether process.env.GOOGLE_MAPS_API_KEY is set
  request,        \* the request being handled
  hpc,            \* the position inside POST
  issued,         \* the directions requests sent so far for this call
  settled,        \* what the service answered to them, in the same order
  encodedAB,      \* the polyline of the direct A -> B route
  bestBranch,     \* the selection's result
  responses,      \* the HTTP responses sent for the request being handled
  served          \* the number of requests received so far

\* planTripWithBestBranch of components/functions/merging/merge_trip.ts.
VARIABLES
  ppc,            \* the position inside planTripWithBestBranch
  plan            \* what the call returned

\* The component of components/TripForm.tsx.
VARIABLES
  loading,        \* the state `loading`
  clicks,         \* the number of clicks handled so far
  inflight,       \* the clicks whose handleClick has not completed, each
                  \* with the await it is suspended at
  displayed       \* the click whose routes, segments and totals are shown

serverVars ==
  <<clock, TRIP_DATE, apiKey, request, hpc, issued, settled, encodedAB,
    bestBranch, responses, served>>

plannerVars == <<ppc, plan>>

formVars == <<loading, clicks, inflight, displayed>>

\* Everything outside getBestBranchWithAvailableEV.
callers == <<serverVars, plannerVars, formVars>>

inputs ==
  <<DISTANCE_THRESHOLD, RANGE_THRESHOLD, TIME, encoded, branches, cars, trips, tz>>

vars ==
  <<DISTANCE_THRESHOLD, RANGE_THRESHOLD, TIME, encoded, branches, cars, trips,
    tz, pc, decoded, nearbyMapped, nearbyBranches, branchesWithEVs,
    highRangeEvMap, candidates, bookedMap, desiredDate, freeCandidates, scored,
    result, snapshot, callers>>

\* The locals of one invocation.
locals ==
  <<decoded, nearbyMapped, nearbyBranches, branchesWithEVs, highRangeEvMap,
    candidates, bookedMap, desiredDate, freeCandidates, scored>>

(* ------------------------------ inputs -------------------------------- *)

E1 == <<"E", "1">>

E2 == <<"E", "2">>

G1 == <<"G", "1">>

\* " E1": an id the CSV wrote with a leading blank
SpE1 == <<" ", "E", "1">>

BranchNames == {"A", "B"}

\* Latitudes (grid steps) of path points and of branches.
PathLats == {0, 2, 5}

BranchLats == {0, 1, 3, 4}

Thresholds == {CallerDistanceThreshold \div 2, CallerDistanceThreshold}

TzOffsets == {-9, -5, 0, 2}

Paths == SeqsUpTo({<<lat, 0>> : lat \in PathLats}, MaxPathLen)

BranchRow(name, lat, lng, cell) ==
  [Name |-> name, Lat |-> lat, Lng |-> lng, cars |-> cell]

CarRow(id, type, range, cell) ==
  [id |-> id, type |-> type, range_km |-> range, trips_ids |-> cell]

TripRow(id, dep, arr) ==
  [car_id |-> id, departure_time |-> dep, arrival_time |-> arr]

\* Both E1 and E2 are electric cars of sufficient range.
GoodFleet ==
  <<CarRow(Str(E1), "electric", NumCell(CallerRangeThreshold + 50), AbsentCell),
    CarRow(Str(E2), "electric", NumCell(CallerRangeThreshold + 50), AbsentCell)>>

\* A route from latitude 0 to latitude 4 with two branches near it.
FixedRoute == PolylineEncode(<<<<0, 0>>, <<4, 0>>>>)

\* Day 1 stands for the date 2024-06-01.
TargetDay == 1

\* Varied routes and branch positions; every branch holds E1 and E2.
InitRoute ==
  /\ DISTANCE_THRESHOLD \in Thresholds
  /\ RANGE_THRESHOLD = CallerRangeThreshold
  /\ TIME = DateOnly(TargetDay)
  /\ tz = 0
  /\ encoded \in {PolylineEncode(p) : p \in Paths}
  /\ branches \in SeqsUpTo(
       {BranchRow(n, NumCell(lat), NumCell(0), ListCell(<<E1, E2>>)) :
          n \in BranchNames, lat \in BranchLats}
       \cup {BranchRow("A", BadNumCell, NumCell(0), ListCell(<<E1, E2>>)),
             BranchRow("A", NumCell(1), BadNumCell, ListCell(<<E1, E2>>))},
       MaxBranches)
  /\ cars = GoodFleet
  /\ trips = <<>>

\* Varied cars cells and car rows on a fixed route.
InitFleet ==
  /\ DISTANCE_THRESHOLD = CallerDistanceThreshold
  /\ RANGE_THRESHOLD = CallerRangeThreshold
  /\ TIME = DateOnly(TargetDay)
  /\ tz = 0
  /\ encoded = FixedRoute
  /\ \E cellA \in {AbsentCell, BrokenCell, NonListCell, ListCell(<<E1>>),
                   ListCell(<<G1>>), ListCell(<<SpE1, E2>>),
                   ListCell(<<E2, G1, E1>>)},
        cellB \in {AbsentCell, NonListCell, ListCell(<<E2, G1, E1>>)} :
       branches = <<BranchRow("A", NumCell(1), NumCell(0), cellA),
                    BranchRow("B", NumCell(2), NumCell(0), cellB)>>
  /\ cars \in SeqsUpTo(
       {CarRow(Str(id), ty[1], ty[2], AbsentCell) :
          id \in {E1, E2},
          ty \in {<<"electric", NumCell(CallerRangeThreshold + 50)>>,
                  <<"electric", NumCell(CallerRangeThreshold)>>,
                  <<"electric", BadNumCell>>,
                  <<"gas", NumCell(CallerRangeThreshold + 50)>>}},
       MaxCars)
  /\ trips = <<>>

\* Varied bookings, target dates and time zones on a fixed route and fleet.
InitBooking ==
  /\ DISTANCE_THRESHOLD = CallerDistanceThreshold
  /\ RANGE_THRESHOLD = CallerRangeThreshold
  /\ TIME \in {DateOnly(TargetDay), UtcTime(TargetDay, 22)}
  /\ tz \in TzOffsets
  /\ encoded = FixedRoute
  /\ branches \in
       {<<BranchRow("A", NumCell(1), NumCell(0), ListCell(<<E1>>))>>,
        <<BranchRow("A", NumCell(1), NumCell(0), ListCell(<<E1>>)),
          BranchRow("B", NumCell(2), NumCell(0), ListCell(<<E2>>))>>}
  /\ cars = GoodFleet
  /\ trips \in SeqsUpTo(
       {TripRow(Str(E1), dep, arr) :
          dep \in {AbsentTime, BadTime, UtcTime(TargetDay, 8),
                   DateOnly(TargetDay)},
          arr \in {AbsentTime, LocalTime(TargetDay, 23)}}
       \cup {TripRow(Str(E2), UtcTime(TargetDay, 8), AbsentTime)},
       MaxTrips)

\* No server request, no planTripWithBestBranch call and no click is under way.
InitCallers ==
  /\ clock = TargetDay
  /\ TRIP_DATE = TargetDay
  /\ apiKey = TRUE
  /\ request = NULL
  /\ hpc = "idle"
  /\ issued = <<>>
  /\ settled = <<>>
  /\ encodedAB = <<>>
  /\ bestBranch = NULL
  /\ responses = <<>>
  /\ served = 0
  /\ ppc = "idle"
  /\ plan = NULL
  /\ loading = FALSE
  /\ clicks = 0
  /\ inflight = {}
  /\ displayed = 0

InitLocals ==
  /\ InitCallers
  /\ pc = "loaded"
  /\ decoded = <<>>
  /\ nearbyMapped = <<>>
  /\ nearbyBranches = <<>>
  /\ branchesWithEVs = <<>>
  /\ highRangeEvMap = <<>>
  /\ candidates = <<>>
  /\ bookedMap = <<>>
  /\ desiredDate = 0
  /\ freeCandidates = <<>>
  /\ scored = <<>>
  /\ result = NULL
  /\ snapshot = [rows |-> <<branches, cars, trips>>, finished |-> FALSE,
                 pc |-> "loaded", result |-> NULL, locals |-> <<>>]

Init == (InitRoute \/ InitFleet \/ InitBooking) /\ InitLocals

\* Car rows with gaps: a missing id column, an id written with a blank, an id
\* without the EV prefix, an unreadable range, a range equal to the threshold,
\* another type.
CarRowsWithGaps ==
  {CarRow(id, "electric", range, AbsentCell) :
     id \in {Str(E1), Str(E2), Str(G1), Undefined},
     range \in {NumCell(CallerRangeThreshold + 50), BadNumCell}}
  \cup {CarRow(Str(SpE1), "electric", NumCell(CallerRangeThreshold + 50),
                AbsentCell),
        CarRow(Str(E2), "electric", NumCell(CallerRangeThreshold), AbsentCell),
        CarRow(Str(E1), "gas", NumCell(CallerRangeThreshold + 50), AbsentCell)}

\* Trip rows with gaps: a missing car_id column, an id written with a blank, an
\* empty, missing or unreadable departure time, no time at all; and a row with
\* both times, on different days.
TripRowsWithGaps ==
  {TripRow(Undefined, UtcTime(TargetDay, 8), AbsentTime),
   TripRow(Str(SpE1), UtcTime(TargetDay, 8), AbsentTime),
   TripRow(Str(E1), EmptyTime, LocalTime(TargetDay, 10)),
   TripRow(Str(E1), UtcTime(TargetDay, 8), LocalTime(TargetDay + 1, 10)),
   TripRow(Str(E1), BadTime, UtcTime(TargetDay, 8)),
   TripRow(Str(E1), AbsentTime, AbsentTime),
   TripRow(Str(E2), AbsentTime, BadTime)}

\* Branch rows of unique names on the fixed route, one of them possibly with an
\* unreadable coordinate or with no EV id in its cars cell.
BranchRowsWithGaps ==
  {<<BranchRow("A", NumCell(1), NumCell(0), ListCell(<<E1, E2>>))>>,
   <<BranchRow("B", BadNumCell, NumCell(0), ListCell(<<E2>>)),
     BranchRow("A", NumCell(2), NumCell(0), ListCell(<<E1>>))>>,
   <<BranchRow("A", NumCell(1), NumCell(0), ListCell(<<G1>>)),
     BranchRow("B", NumCell(2), NumCell(0), ListCell(<<E2, G1>>))>>,
   <<BranchRow("A", NumCell(1), NumCell(0), ListCell(<<G1>>))>>}

\* Rows with missing or unreadable fields: varied car rows without trips, or
\* varied trip rows with the good fleet.
InitRows ==
  /\ DISTANCE_THRESHOLD = CallerDistanceThreshold
  /\ RANGE_THRESHOLD = CallerRangeThreshold
  /\ TIME = DateOnly(TargetDay)
  /\ encoded = FixedRoute
  /\ branches \in BranchRowsWithGaps
  /\ \/ /\ cars \in SeqsUpTo(CarRowsWithGaps, MaxCars)
        /\ trips = <<>>
        /\ tz = 0
     \/ /\ cars = GoodFleet
        /\ trips \in SeqsUpTo(TripRowsWithGaps, MaxTrips)
        /\ tz \in {-5, 0, 2}

(* ------------------------------ actions ------------------------------- *)

\* Step 2 (lines 226-231): the call of findNearbyBranchesFromPolyline.
FindNearbyBranches ==
  /\ pc = "loaded"
  /\ decoded' = DecodedPath(encoded)
  /\ nearbyMapped' = NearbyMapped(DISTANCE_THRESHOLD, decoded', branches)
  /\ nearbyBranches' = FilterNonNull(nearbyMapped')
  /\ pc' = "nearby"
  /\ UNCHANGED <<inputs, snapshot, callers,
                 branchesWithEVs, highRangeEvMap, candidates, bookedMap,
                 desiredDate, freeCandidates, scored, result>>

\* Step 3 (lines 236-255): a TypeError leaves the function when a cars cell
\* parsed to something that is no array.
FilterBranchesWithEVs ==
  /\ pc = "nearby"
  /\ IF \E i \in 1..Len(branches) : CarsCellThrows(branches[i])
       THEN /\ pc' = "threw"
            /\ UNCHANGED branchesWithEVs
       ELSE /\ pc' = "withEVs"
            /\ branchesWithEVs' = BranchesWithEVs(nearbyBranches, branches)
  /\ UNCHANGED <<inputs, snapshot, callers,
                 decoded, nearbyMapped, nearbyBranches, highRangeEvMap,
                 candidates, bookedMap, desiredDate, freeCandidates, scored,
                 result>>

\* Step 4 (lines 260-268)
IndexHighRangeEVs ==
  /\ pc = "withEVs"
  /\ IF \E k \in 1..Len(cars) : CarIdThrows(cars[k], RANGE_THRESHOLD)
       THEN /\ pc' = "threw"
            /\ UNCHANGED highRangeEvMap
       ELSE /\ pc' = "indexed"
            /\ highRangeEvMap' = HighRangeEvMap(cars, RANGE_THRESHOLD)
  /\ UNCHANGED <<inputs, snapshot, callers,
                 decoded, nearbyMapped, nearbyBranches, branchesWithEVs,
                 candidates, bookedMap, desiredDate, freeCandidates, scored,
                 result>>

\* Step 5 (lines 273-298)
BuildCandidates ==
  /\ pc = "indexed"
  /\ candidates' = Candidates(branchesWithEVs, highRangeEvMap)
  /\ pc' = "candidates"
  /\ UNCHANGED <<inputs, snapshot, callers,
                 decoded, nearbyMapped, nearbyBranches, branchesWithEVs,
                 highRangeEvMap, bookedMap, desiredDate, freeCandidates, scored,
                 result>>

\* Step 6 (lines 303-317): returns null when no candidate is free.
RemoveBooked ==
  /\ pc = "candidates"
  /\ bookedMap' = BookedMap(trips, tz)
  /\ desiredDate' = toLocalDate(TIME, tz)
  /\ freeCandidates' = FreeCandidates(candidates, bookedMap', desiredDate')
  /\ pc' = IF Len(freeCandidates') = 0 THEN "returned" ELSE "free"
  /\ UNCHANGED <<inputs, snapshot, callers,
                 decoded, nearbyMapped, nearbyBranches, branchesWithEVs,
                 highRangeEvMap, candidates, scored, result>>

\* ScoreAndPick that also records the selection as a trip of the chosen car.
ScoreAndPickReserving ==
  /\ pc = "free"
  /\ scored' = [k \in 1..Len(freeCandidates) |-> Scored(freeCandidates[k])]
  /\ result' = PickBest(scored')
  /\ trips' = Append(trips, TripRow(Str(result'.ev_id), TIME, AbsentTime))
  /\ pc' = "returned"
  /\ UNCHANGED <<DISTANCE_THRESHOLD, RANGE_THRESHOLD, TIME, encoded, branches,
                 cars, tz, snapshot, callers, decoded, nearbyMapped,
                 nearbyBranches,
                 branchesWithEVs, highRangeEvMap, candidates, bookedMap,
                 desiredDate, freeCandidates>>

\* Step 7 (lines 322-336)
ScoreAndPick ==
  /\ pc = "free"
  /\ scored' = [k \in 1..Len(freeCandidates) |-> Scored(freeCandidates[k])]
  /\ result' = PickBest(scored')
  /\ pc' = "returned"
  /\ UNCHANGED <<inputs, snapshot, callers,
                 decoded, nearbyMapped, nearbyBranches, branchesWithEVs,
                 highRangeEvMap, candidates, bookedMap, desiredDate,
                 freeCandidates>>

Next ==
  \/ FindNearbyBranches
  \/ FilterBranchesWithEVs
  \/ IndexHighRangeEVs
  \/ BuildCandidates
  \/ RemoveBooked
  \/ ScoreAndPick

Spec == Init /\ [][Next]_vars

\* The same function on rows with missing or unreadable fields.
InitWithGaps == InitRows /\ InitLocals

SpecRows == InitWithGaps /\ [][Next]_vars

\* A caller invokes the function a second time on the same arguments and the
\* same CSV snapshots (each request of the plan-trip route calls it once): the
\* new invocation starts at line 207 with locals of its own.
InvokeAgain ==
  /\ pc \in {"returned", "threw"}
  /\ ~snapshot.finished
  /\ snapshot' = [snapshot EXCEPT !.finished = TRUE, !.pc = pc,
                                  !.result = result, !.locals = locals]
  /\ pc' = "loaded"
  /\ decoded' = <<>>
  /\ nearbyMapped' = <<>>
  /\ nearbyBranches' = <<>>
  /\ branchesWithEVs' = <<>>
  /\ highRangeEvMap' = <<>>
  /\ candidates' = <<>>
  /\ bookedMap' = <<>>
  /\ desiredDate' = 0
  /\ freeCandidates' = <<>>
  /\ scored' = <<>>
  /\ result' = NULL
  /\ UNCHANGED <<inputs, callers>>

InitAgain == (InitBooking \/ InitRows) /\ InitLocals

NextAgain == Next \/ InvokeAgain

SpecAgain == InitAgain /\ [][NextAgain]_vars

(* ----------------- POST /api/plan-trip (route.ts) --------------------- *)

\* The variables of getBestBranchWithAvailableEV.
selection == <<inputs, pc, locals, result, snapshot>>

\* What a call of getDriveRoute can give: a rejection (network error or
\* !res.ok), a body without routes[0].polyline.encodedPolyline (or with an
\* empty one: the handler tests !enc), or a polyline.
Rejected == [ok |-> FALSE, polyline |-> <<>>]

NoPolyline == [ok |-> TRUE, polyline |-> <<>>]

WithPolyline(enc) == [ok |-> TRUE, polyline |-> enc]

DriveOutcomes(polylines) ==
  {Rejected, NoPolyline} \cup {WithPolyline(enc) : enc \in polylines}

\* !enc: undefined or the empty string
MissingPolyline(out) == out.polyline = <<>>

\* The places a directions request names: the request's origin and
\* destination, and branchCoord (line 140).
PlaceA == [place |-> "origin"]

PlaceB == [place |-> "destination"]

BranchCoord(b) == [place |-> "branch", lat |-> b.lat, lng |-> b.lng]

\* One request to the directions service.
DriveRequest(from, to, vehicleType) ==
  [origin |-> from, destination |-> to, vehicleType |-> vehicleType]

\* Polylines the service may return for A -> B, A -> branch and branch -> B.
\* The service snaps an endpoint to a road: the leg to the branch and the leg
\* from it need not meet in one point.
RouteABPolylines == {FixedRoute}

ToBranchPolylines == {PolylineEncode(<<<<0, 0>>, <<1, 0>>>>)}

ToDestPolylines ==
  {PolylineEncode(<<<<1, 0>>, <<4, 0>>>>),
   PolylineEncode(<<<<2, 0>>, <<4, 0>>>>),
   PolylineEncode(<<<<1, 0>>>>)}

BackPolylines == {PolylineEncode(<<<<4, 0>>, <<1, 0>>>>)}

\* mergeEncodedPolylines (lines 90-96): [...ptsA, ...ptsB.slice(1)], encoded.
mergeEncodedPolylines(encodeA, encodeB) ==
  LET ptsA == PolylineDecode(encodeA)
      ptsB == PolylineDecode(encodeB)
      merged == ptsA \o (IF Len(ptsB) = 0 THEN <<>> ELSE Tail(ptsB))
  IN PolylineEncode(merged)

\* The request bodies: text that req.json() cannot parse, the JSON text
\* null, and objects with or without origin and destination.
Requests ==
  {[body |-> b, origin |-> FALSE, destination |-> FALSE] :
     b \in {"unparseable", "null"}}
    \cup {[body |-> "object", origin |-> o, destination |-> d] :
            o \in BOOLEAN, d \in BOOLEAN}

\* The CSV snapshots a call may load: no branch, a branch with a free
\* eligible EV, a branch whose cars cell makes the selection throw.
CsvSnapshots ==
  {<<<<>>, GoodFleet, <<>>>>,
   <<<<BranchRow("A", NumCell(1), NumCell(0), ListCell(<<E1>>))>>, GoodFleet,
     <<>>>>,
   <<<<BranchRow("A", NumCell(1), NumCell(0), NonListCell)>>, GoodFleet,
     <<>>>>}

\* NextResponse.json(body, {status})
Respond(r) ==
  /\ responses' = Append(responses, r)
  /\ hpc' = "done"

ErrorResponse(status) == [status |-> status, error |-> TRUE]

\* The modules are loaded (line 18 of route.ts has run once); no request has
\* arrived, nothing has been called or clicked.
InitIdle ==
  /\ DISTANCE_THRESHOLD = CallerDistanceThreshold
  /\ RANGE_THRESHOLD = CallerRangeThreshold
  /\ TIME = DateOnly(TargetDay)
  /\ encoded = <<>>
  /\ branches = <<>>
  /\ cars = <<>>
  /\ trips = <<>>
  /\ tz = 0
  /\ pc = "idle"
  /\ decoded = <<>>
  /\ nearbyMapped = <<>>
  /\ nearbyBranches = <<>>
  /\ branchesWithEVs = <<>>
  /\ highRangeEvMap = <<>>
  /\ candidates = <<>>
  /\ bookedMap = <<>>
  /\ desiredDate = 0
  /\ freeCandidates = <<>>
  /\ scored = <<>>
  /\ result = NULL
  /\ snapshot = NULL
  /\ clock = TargetDay
  /\ TRIP_DATE = clock
  /\ apiKey \in BOOLEAN
  /\ request = NULL
  /\ hpc = "idle"
  /\ issued = <<>>
  /\ settled = <<>>
  /\ encodedAB = <<>>
  /\ bestBranch = NULL
  /\ responses = <<>>
  /\ served = 0
  /\ ppc = "idle"
  /\ plan = NULL
  /\ loading = FALSE
  /\ clicks = 0
  /\ inflight = {}
  /\ displayed = 0

\* A request arrives and POST starts.
Receive ==
  /\ hpc \in {"idle", "done"}
  /\ served < MaxRequests
  /\ request' \in Requests
  /\ served' = served + 1
  /\ hpc' = "received"
  /\ issued' = <<>>
  /\ settled' = <<>>
  /\ responses' = <<>>
  /\ encodedAB' = <<>>
  /\ bestBranch' = NULL
  /\ UNCHANGED <<selection, clock, TRIP_DATE, apiKey, plannerVars, formVars>>

\* Midnight (UTC) passes between two requests.
Tick ==
  /\ hpc \in {"idle", "done"}
  /\ clock < TargetDay + MaxDays
  /\ clock' = clock + 1
  /\ UNCHANGED <<selection, TRIP_DATE, apiKey, request, hpc, issued, settled,
                 encodedAB, bestBranch, responses, served, plannerVars,
                 formVars>>

\* Lines 103-119: the body is parsed and checked, the key is read, and the
\* A -> B route is requested.  A rejection of req.json() and the TypeError of
\* destructuring null both land in the catch.
Validate ==
  /\ hpc = "received"
  /\ IF request.body # "object"
       THEN Respond(ErrorResponse(500)) /\ UNCHANGED issued
     ELSE IF ~request.origin \/ ~request.destination
       THEN Respond(ErrorResponse(400)) /\ UNCHANGED issued
     ELSE IF ~apiKey THEN Respond(ErrorResponse(500)) /\ UNCHANGED issued
     ELSE /\ issued' = Append(issued, DriveRequest(PlaceA, PlaceB, "Mix"))
          /\ hpc' = "routeAB"
          /\ UNCHANGED responses
  /\ UNCHANGED <<selection, clock, TRIP_DATE, apiKey, request, settled,
                 encodedAB, bestBranch, served, plannerVars, formVars>>

\* Lines 119-133: the A -> B request settles; with a polyline the handler
\* calls getBestBranchWithAvailableEV(DISTANCE_THRESHOLD, RANGE_THRESHOLD,
\* TRIP_DATE, encodedAB), which reads the CSV files.
RouteABSettles ==
  /\ hpc = "routeAB"
  /\ \E out \in DriveOutcomes(RouteABPolylines) :
       /\ settled' = Append(settled, out)
       /\ IF ~out.ok \/ MissingPolyline(out)
            THEN /\ Respond(ErrorResponse(500))
                 /\ UNCHANGED <<selection, encodedAB>>
            ELSE /\ encodedAB' = out.polyline
                 /\ hpc' = "select"
                 /\ DISTANCE_THRESHOLD' = CallerDistanceThreshold
                 /\ RANGE_THRESHOLD' = CallerRangeThreshold
                 /\ TIME' = DateOnly(TRIP_DATE)
                 /\ encoded' = out.polyline
                 /\ \E rows \in CsvSnapshots :
                      /\ branches' = rows[1]
                      /\ cars' = rows[2]
                      /\ trips' = rows[3]
                 /\ pc' = "loaded"
                 /\ result' = NULL
                 /\ UNCHANGED <<tz, locals, snapshot, responses>>
  /\ UNCHANGED <<clock, TRIP_DATE, apiKey, request, issued, bestBranch, served,
                 plannerVars, formVars>>

\* LegRequests without the drive back from the branch to the origin.
LegRequestsOutwardOnly(b) ==
  <<DriveRequest(PlaceA, BranchCoord(b), "Gas"),
    DriveRequest(BranchCoord(b), PlaceB, "EV"),
    DriveRequest(PlaceB, BranchCoord(b), "EV")>>

\* The four legs of lines 146-152, in the order Promise.all starts them.
LegRequests(b) ==
  <<DriveRequest(PlaceA, BranchCoord(b), "Gas"),
    DriveRequest(BranchCoord(b), PlaceB, "EV"),
    DriveRequest(PlaceB, BranchCoord(b), "EV"),
    DriveRequest(BranchCoord(b), PlaceA, "Gas")>>

\* Lines 127-152: the selection returned or threw.  Without a branch the
\* handler answers with the A -> B polyline; with one, Promise.all starts the
\* four leg requests before any of them settles.
SelectionSettles ==
  /\ hpc = "select"
  /\ pc \in {"returned", "threw"}
  /\ IF pc = "threw"
       THEN /\ Respond(ErrorResponse(500))
            /\ UNCHANGED <<issued, bestBranch>>
       ELSE IF result = NULL
         THEN /\ Respond([status |-> 200, mergedEncoded |-> encodedAB,
                          branch |-> NULL])
              /\ UNCHANGED <<issued, bestBranch>>
         ELSE /\ bestBranch' = result
              /\ issued' = issued \o LegRequests(result)
              /\ hpc' = "legs"
              /\ UNCHANGED responses
  /\ UNCHANGED <<selection, clock, TRIP_DATE, apiKey, request, settled,
                 encodedAB, served, plannerVars, formVars>>

\* Lines 146-188: Promise.all rejects when any leg rejects; the two outward
\* legs must carry a polyline; the merged polyline, the branch and the four
\* routes are returned.
LegsSettle ==
  /\ hpc = "legs"
  /\ \E toBranch \in DriveOutcomes(ToBranchPolylines),
        toDest \in DriveOutcomes(ToDestPolylines),
        backToBranch \in DriveOutcomes(BackPolylines),
        backToOrigin \in DriveOutcomes(BackPolylines) :
       /\ settled' =
            settled \o <<toBranch, toDest, backToBranch, backToOrigin>>
       /\ IF \E o \in {toBranch, toDest, backToBranch, backToOrigin} : ~o.ok
            THEN Respond(ErrorResponse(500))
            ELSE IF MissingPolyline(toBranch) \/ MissingPolyline(toDest)
              THEN Respond(ErrorResponse(500))
              ELSE Respond([status |-> 200,
                            mergedEncoded |->
                              mergeEncodedPolylines(toBranch.polyline,
                                                    toDest.polyline),
                            branch |-> bestBranch,
                            routes |-> [toBranch |-> toBranch,
                                        toDest |-> toDest,
                                        backToBranch |-> backToBranch,
                                        backToOrigin |-> backToOrigin]])
  /\ UNCHANGED <<selection, clock, TRIP_DATE, apiKey, request, issued,
                 encodedAB, bestBranch, served, plannerVars, formVars>>

NextServer ==
  \/ Receive
  \/ Tick
  \/ Validate
  \/ RouteABSettles
  \/ FindNearbyBranches
  \/ FilterBranchesWithEVs
  \/ IndexHighRangeEVs
  \/ BuildCandidates
  \/ RemoveBooked
  \/ ScoreAndPick
  \/ SelectionSettles
  \/ LegsSettle

SpecServer == InitIdle /\ [][NextServer]_vars

(* ------------- planTripWithBestBranch (merge_trip.ts) ----------------- *)

\* What a call of the three-argument getDriveRoute can give the planner: a
\* rejection (!res.ok), a body without routes[0].legs[0] (reading it throws a
\* TypeError), or a body with the leg, with or without a polyline.
LegRejected == [ok |-> FALSE, leg |-> FALSE, polyline |-> <<>>]

LegOutcomes ==
  {LegRejected}
    \cup {[ok |-> TRUE, leg |-> l, polyline |-> enc] :
            l \in BOOLEAN, enc \in ToBranchPolylines \cup {<<>>}}

LegFailed(out) == ~out.ok \/ ~out.leg

\* The LegInfo built from a response (lines 116-130).
LegInfo(out) == [encodedPolyline |-> out.polyline]

\* The three legs of lines 111-157, in the order they are awaited (the
\* three-argument getDriveRoute takes no vehicle type).
PlannerLegs(b) ==
  <<DriveRequest(PlaceA, BranchCoord(b), "none"),
    DriveRequest(BranchCoord(b), PlaceB, "none"),
    DriveRequest(PlaceB, BranchCoord(b), "none")>>

\* Lines 64-88: the stored route is read (readFile or JSON.parse may throw)
\* and the selection is called with today's date.
PlanStart ==
  /\ ppc \in {"idle", "returned", "threw"}
  /\ served < MaxRequests
  /\ served' = served + 1
  /\ issued' = <<>>
  /\ settled' = <<>>
  /\ plan' = NULL
  /\ \E stored \in BOOLEAN :
       IF ~stored
         THEN /\ ppc' = "threw"
              /\ pc' = "idle"
              /\ result' = NULL
              /\ UNCHANGED <<inputs, locals, snapshot>>
         ELSE /\ ppc' = "select"
              /\ DISTANCE_THRESHOLD' = CallerDistanceThreshold
              /\ RANGE_THRESHOLD' = CallerRangeThreshold
              /\ TIME' = DateOnly(clock)
              /\ encoded' = FixedRoute
              /\ \E rows \in CsvSnapshots :
                   /\ branches' = rows[1]
                   /\ cars' = rows[2]
                   /\ trips' = rows[3]
              /\ pc' = "loaded"
              /\ result' = NULL
              /\ UNCHANGED <<tz, locals, snapshot>>
  /\ UNCHANGED <<clock, TRIP_DATE, apiKey, request, hpc, encodedAB, bestBranch,
                 responses, formVars>>

\* PlanSelectionSettles reading the API key before it looks at the
\* selection's result.
PlanSelectionSettlesKeyFirst ==
  /\ ppc = "select"
  /\ pc \in {"returned", "threw"}
  /\ IF pc = "threw" \/ ~apiKey
       THEN /\ ppc' = "threw"
            /\ UNCHANGED <<plan, issued>>
       ELSE IF result = NULL
         THEN /\ ppc' = "returned"
              /\ plan' = [branch |-> NULL, legToBranch |-> NULL,
                          legBranchToDest |-> NULL, legDestToBranch |-> NULL]
              /\ UNCHANGED issued
         ELSE /\ ppc' = "legs"
              /\ issued' = Append(issued, PlannerLegs(result)[1])
              /\ UNCHANGED plan
  /\ UNCHANGED <<selection, clock, TRIP_DATE, apiKey, request, hpc, settled,
                 encodedAB, bestBranch, responses, served, formVars>>

\* Lines 83-115: the selection returned or threw.  Without a branch the
\* planner returns the all-null result; with one it reads the API key and
\* requests the first leg.
PlanSelectionSettles ==
  /\ ppc = "select"
  /\ pc \in {"returned", "threw"}
  /\ IF pc = "threw"
       THEN /\ ppc' = "threw"
            /\ UNCHANGED <<plan, issued>>
       ELSE IF result = NULL
         THEN /\ ppc' = "returned"
              /\ plan' = [branch |-> NULL, legToBranch |-> NULL,
                          legBranchToDest |-> NULL, legDestToBranch |-> NULL]
              /\ UNCHANGED issued
         ELSE IF ~apiKey
           THEN /\ ppc' = "threw"
                /\ UNCHANGED <<plan, issued>>
           ELSE /\ ppc' = "legs"
                /\ issued' = Append(issued, PlannerLegs(result)[1])
                /\ UNCHANGED plan
  /\ UNCHANGED <<selection, clock, TRIP_DATE, apiKey, request, hpc, settled,
                 encodedAB, bestBranch, responses, served, formVars>>

\* Lines 111-178: the leg that was requested settles.  A rejection or a
\* body without the leg throws; otherwise the next leg is requested, and
\* after the third the branch and the three legs are returned.
PlanLegSettles ==
  /\ ppc = "legs"
  /\ \E out \in LegOutcomes :
       /\ settled' = Append(settled, out)
       /\ IF LegFailed(out)
            THEN /\ ppc' = "threw"
                 /\ UNCHANGED <<plan, issued>>
            ELSE IF Len(settled') < 3
              THEN /\ issued' =
                        Append(issued, PlannerLegs(result)[Len(issued) + 1])
                   /\ UNCHANGED <<ppc, plan>>
              ELSE /\ ppc' = "returned"
                   /\ plan' = [branch |-> result,
                               legToBranch |-> LegInfo(settled'[1]),
                               legBranchToDest |-> LegInfo(settled'[2]),
                               legDestToBranch |-> LegInfo(settled'[3])]
                   /\ UNCHANGED issued
  /\ UNCHANGED <<selection, clock, TRIP_DATE, apiKey, request, hpc, encodedAB,
                 bestBranch, responses, served, formVars>>

NextPlanner ==
  \/ PlanStart
  \/ FindNearbyBranches
  \/ FilterBranchesWithEVs
  \/ IndexHighRangeEVs
  \/ BuildCandidates
  \/ RemoveBooked
  \/ ScoreAndPick
  \/ PlanSelectionSettles
  \/ PlanLegSettles

SpecPlanner == InitIdle /\ [][NextPlanner]_vars

(* ------------------------- TripForm.tsx ------------------------------- *)

\* The clicks whose handleClick is suspended at an await.
Pending == {e[1] : e \in inflight}

\* Lines 175-221 and 471-477: the button has no disabled attribute, so
\* handleClick runs on every click (with both coordinates selected): it sets
\* loading, clears what is displayed and awaits /api/plan-trip.
Click ==
  /\ clicks < MaxClicks
  /\ clicks' = clicks + 1
  /\ loading' = TRUE
  /\ displayed' = 0
  /\ inflight' = inflight \cup {<<clicks', "plan">>}
  /\ UNCHANGED <<selection, serverVars, plannerVars>>

\* Lines 222-236: the answer of /api/plan-trip arrives, with routes, without
\* (no branch), or as a rejection that the catch reports; the finally clears
\* loading.  Otherwise the two /api/transit requests are awaited.
PlanTripArrives(c) ==
  /\ <<c, "plan">> \in inflight
  /\ \E res \in {"routes", "noroutes", "rejected"} :
       IF res = "rejected"
         THEN /\ inflight' = inflight \ {<<c, "plan">>}
              /\ loading' = FALSE
         ELSE /\ inflight' = (inflight \ {<<c, "plan">>}) \cup {<<c, res>>}
              /\ UNCHANGED loading
  /\ UNCHANGED <<selection, serverVars, plannerVars, clicks, displayed>>

\* Lines 237-418: the transit answers arrive.  Without res.routes the handler
\* alerts, clears loading and returns; with them it sets the segments, the
\* totals and the routes of its own click; a rejection goes to the catch.
\* The finally clears loading.
TransitArrives(c) ==
  /\ \E stage \in {"routes", "noroutes"} :
       /\ <<c, stage>> \in inflight
       /\ inflight' = inflight \ {<<c, stage>>}
       /\ \E ok \in BOOLEAN :
            IF ok /\ stage = "routes"
              THEN displayed' = c
              ELSE UNCHANGED displayed
  /\ loading' = FALSE
  /\ UNCHANGED <<selection, serverVars, plannerVars, clicks>>

NextForm ==
  \/ Click
  \/ \E c \in 1..MaxClicks : PlanTripArrives(c)
  \/ \E c \in 1..MaxClicks : TransitArrives(c)

SpecForm == InitIdle /\ [][NextForm]_vars

(* ====================== properties of the filter ====================== *)

\* findNearbyBranchesFromPolyline has run and the path was not degenerate.
NearbyEvaluated == pc # "loaded" /\ Len(decoded) >= 2

RowNumeric(i) == branches[i].Lat.numeric /\ branches[i].Lng.numeric

RowCoords(i) == Point(branches[i].Lat.v, branches[i].Lng.v)

StartToEnd == getDistance(decoded[1], decoded[Len(decoded)])

StartToRow(i) == getDistance(decoded[1], RowCoords(i))

WithinForwardBound(i) == 10 * StartToRow(i) <= 6 * StartToEnd

RowToPoint(i, k) == getDistance(decoded[k], RowCoords(i))

\* The least distance from branch row i to a point of the path.
LateralOf(i) ==
  CHOOSE d \in {RowToPoint(i, k) : k \in 1..Len(decoded)} :
    \A k \in 1..Len(decoded) : d <= RowToPoint(i, k)

\* The first point of the path at distance d from branch row i.
FirstPointAt(i, d) ==
  CHOOSE k \in 1..Len(decoded) :
    RowToPoint(i, k) = d /\ \A l \in 1..(k - 1) : RowToPoint(i, l) # d

\* Every returned result is the entry of some branch row.
ResultsComeFromRows ==
  \A k \in 1..Len(nearbyBranches) :
    \E i \in 1..Len(branches) :
      nearbyMapped[i] = nearbyBranches[k] /\ branches[i].Name = nearbyBranches[k].Name

Returned(i) ==
  /\ nearbyMapped[i] # NULL
  /\ \E k \in 1..Len(nearbyBranches) : nearbyBranches[k] = nearbyMapped[i]

LateralDistance ==
  NearbyEvaluated =>
    /\ ResultsComeFromRows
    /\ \A i \in 1..Len(branches) :
         /\ nearbyMapped[i] # NULL =>
              /\ RowNumeric(i)
              /\ nearbyMapped[i].distanceToRoute_meters = LateralOf(i)
              /\ nearbyMapped[i].distanceToRoute_meters <= DISTANCE_THRESHOLD
              /\ nearbyMapped[i].minDistanceLocation =
                   decoded[FirstPointAt(i, LateralOf(i))]
         /\ ( /\ RowNumeric(i)
              /\ WithinForwardBound(i)
              /\ LateralOf(i) = DISTANCE_THRESHOLD ) => Returned(i)

\* A returned branch lies exactly at the threshold, two different path points
\* are equally close to it, and the earlier one is reported.
LateralDistanceWitness ==
  /\ NearbyEvaluated
  /\ \E i \in 1..Len(branches) :
       /\ Returned(i)
       /\ nearbyMapped[i].distanceToRoute_meters = DISTANCE_THRESHOLD
       /\ \E k, l \in 1..Len(decoded) :
            /\ k < l
            /\ decoded[k] # decoded[l]
            /\ RowToPoint(i, k) = LateralOf(i)
            /\ RowToPoint(i, l) = LateralOf(i)
            /\ nearbyMapped[i].minDistanceLocation = decoded[k]

SetMin(S) == CHOOSE x \in S : \A y \in S : x <= y

\* nearbyBranches[k..] are entries of branch rows after row prev, in row order.
RECURSIVE NearbyInRowOrder(_, _)
NearbyInRowOrder(k, prev) ==
  IF k > Len(nearbyBranches) THEN TRUE
  ELSE LET rows == {i \in (prev + 1)..Len(branches) :
                      /\ branches[i].Name = nearbyBranches[k].Name
                      /\ nearbyMapped[i] = nearbyBranches[k]}
       IN rows # {} /\ NearbyInRowOrder(k + 1, SetMin(rows))

\* The places (branch row, position in its cars cell) a candidate can come from.
CandidateSources(c) ==
  UNION {{<<i, j>> : j \in {j \in 1..Len(branches[i].cars.items) :
                              trim(branches[i].cars.items[j]) = c.ev_id}} :
           i \in {i \in 1..Len(branches) :
                    /\ branches[i].Name = c.branch
                    /\ parseFloat(branches[i].Lat) = c.lat
                    /\ parseFloat(branches[i].Lng) = c.lng
                    /\ branches[i].cars.kind = "list"}}

PlaceBefore(a, b) == a[1] < b[1] \/ (a[1] = b[1] /\ a[2] < b[2])

FirstPlace(S) == CHOOSE x \in S : \A y \in S : x = y \/ PlaceBefore(x, y)

\* candidates[k..] come from places after prev, in (row, position) order.
RECURSIVE CandidatesInOrder(_, _)
CandidatesInOrder(k, prev) ==
  IF k > Len(candidates) THEN TRUE
  ELSE LET places == {s \in CandidateSources(candidates[k]) : PlaceBefore(prev, s)}
       IN places # {} /\ CandidatesInOrder(k + 1, FirstPlace(places))

CandidatesBuilt == pc \in {"candidates", "free", "returned"}

\* C10: the nearby results keep the order of their branch rows, and the
\* candidates are ordered by branch row and, within a branch, by the position
\* of the EV id in the branch's cars cell.
StableOrder ==
  /\ NearbyEvaluated => NearbyInRowOrder(1, 0)
  /\ CandidatesBuilt => CandidatesInOrder(1, <<0, 0>>)

\* Two nearby branches of different names, one of them with two candidates.
StableOrderWitness ==
  /\ CandidatesBuilt
  /\ Len(nearbyBranches) >= 2
  /\ nearbyBranches[1].Name # nearbyBranches[2].Name
  /\ \E k, l, m \in 1..Len(candidates) :
       /\ k < l
       /\ candidates[k].branch = candidates[l].branch
       /\ candidates[k].ev_id # candidates[l].ev_id
       /\ candidates[m].branch # candidates[k].branch

(* ===================== properties of the selection ==================== *)

\* The calendar date a timestamp text denotes for a reader in the given zone:
\* a date-only text is its own date, a date-time is the local date of its
\* instant.
CalendarDate(ts, zone) ==
  CASE ts.form = "date" -> ts.day
    [] ts.form = "utc" -> (24 * ts.day + ts.hour + zone) \div 24
    [] OTHER -> ts.day

Readable(ts) == ts.form \in {"date", "utc", "local"}

\* The trip row books the car of that id on that calendar date.
TripFallsOn(trip, id, day) ==
  /\ trip.car_id.def
  /\ trim(trip.car_id.s) = id
  /\ Readable(TripTimeStr(trip))
  /\ CalendarDate(TripTimeStr(trip), tz) = day

TargetDate == CalendarDate(TIME, tz)

BookedOnTargetDate(id) ==
  \E t \in 1..Len(trips) : TripFallsOn(trips[t], id, TargetDate)

ReturnedResult == pc = "returned" /\ result # NULL

\* C1: a non-null result names a branch that passed the proximity filter, an EV
\* id listed in that branch's cars cell, a car of type electric whose range
\* exceeds RANGE_THRESHOLD, and a car no trip row books on the target date.
SelectionContract ==
  ReturnedResult =>
    /\ \E k \in 1..Len(nearbyBranches) : nearbyBranches[k].Name = result.branch
    /\ \E i \in 1..Len(branches) :
         /\ branches[i].Name = result.branch
         /\ branches[i].cars.kind = "list"
         /\ \E j \in 1..Len(branches[i].cars.items) :
              trim(branches[i].cars.items[j]) = result.ev_id
    /\ \E c \in 1..Len(cars) :
         /\ cars[c].id.def
         /\ trim(cars[c].id.s) = result.ev_id
         /\ cars[c].type = "electric"
         /\ cars[c].range_km.numeric
         /\ cars[c].range_km.v > RANGE_THRESHOLD
    /\ ~BookedOnTargetDate(result.ev_id)

BookingsRemoved == pc \in {"free", "returned"}

\* C2: a candidate whose EV has a trip record on the calendar date of the
\* target date is absent from the free candidates and is never returned.
BookingExclusion ==
  BookingsRemoved =>
    \A k \in 1..Len(candidates) :
      BookedOnTargetDate(candidates[k].ev_id) =>
        /\ \A f \in 1..Len(freeCandidates) :
             freeCandidates[f].ev_id # candidates[k].ev_id
        /\ result = NULL \/ result.ev_id # candidates[k].ev_id

\* One qualifying branch with the one eligible EV E1, booked by a trip that
\* departs at 2024-06-01T08:00:00Z; the target date is the text 2024-06-01.
ScenarioBInput ==
  /\ encoded = FixedRoute
  /\ DISTANCE_THRESHOLD = CallerDistanceThreshold
  /\ RANGE_THRESHOLD = CallerRangeThreshold
  /\ branches = <<BranchRow("A", NumCell(1), NumCell(0), ListCell(<<E1>>))>>
  /\ cars = GoodFleet
  /\ trips = <<TripRow(Str(E1), UtcTime(TargetDay, 8), AbsentTime)>>
  /\ TIME = DateOnly(TargetDay)

\* C3: Scenario B returns null in every time zone of the process.
ScenarioB == (ScenarioBInput /\ pc = "returned") => result = NULL

\* a <= b and a = b in IEEE arithmetic: false when either is NaN.
FloatLeq(a, b) ==
  IF a.kind = "nan" \/ b.kind = "nan" THEN FALSE
  ELSE IF b.kind = "inf" THEN TRUE
  ELSE IF a.kind = "inf" THEN FALSE
  ELSE a.num * b.den <= b.num * a.den

FloatEq(a, b) == FloatLeq(a, b) /\ FloatLeq(b, a)

Picked == pc = "returned" /\ Len(freeCandidates) > 0

\* C4: the returned candidate's score is at most the score of every free
\* candidate, and it is the first of the list with that score.
MinimumScoreSelected ==
  Picked =>
    \E k \in 1..Len(scored) :
      /\ result = scored[k]
      /\ \A l \in 1..Len(scored) :
           FloatLeq(result.distanceRatio, scored[l].distanceRatio)
      /\ \A l \in 1..(k - 1) :
           ~FloatEq(scored[l].distanceRatio, result.distanceRatio)

ZeroDistance(c) == c.distanceToMinLocation_meters = [nan |-> FALSE, v |-> 0]

\* C5: a candidate at distance zero from its nearest path point has an
\* infinite score and is not the result when another candidate of the list has
\* a finite score.
ZeroDistanceNeverWins ==
  Picked =>
    \A k \in 1..Len(scored) :
      ZeroDistance(scored[k]) =>
        /\ scored[k].distanceRatio.kind = "inf"
        /\ (\E l \in 1..Len(scored) : scored[l].distanceRatio.kind = "fin")
             => ~ZeroDistance(result)

\* C6: every scored candidate's distanceToMinLocation_meters equals its
\* distanceToRoute_meters, so a score with a non-zero denominator is 1.
RatioIsOne ==
  Picked =>
    \A k \in 1..Len(scored) :
      /\ scored[k].distanceToMinLocation_meters =
           [nan |-> FALSE, v |-> scored[k].distanceToRoute_meters]
      /\ scored[k].distanceToMinLocation_meters.v # 0 =>
           /\ scored[k].distanceRatio.kind = "fin"
           /\ scored[k].distanceRatio.num = scored[k].distanceRatio.den


(* ================= properties of the pipeline's stages ================ *)

\* Lateral thresholds at least as large as the one of the call.
WiderThresholds ==
  {t \in Thresholds \cup {DISTANCE_THRESHOLD + 1,
                          DISTANCE_THRESHOLD + MetersPerStep} :
     t >= DISTANCE_THRESHOLD}

\* C11: every branch row returned with the call's lateral threshold T1 is
\* returned, for the same path and rows, with every threshold T2 >= T1, with
\* the same distanceToRoute_meters and minDistanceLocation.
ThresholdMonotonicity ==
  pc = "nearby" =>
    \A t2 \in WiderThresholds :
      LET wider == NearbyMapped(t2, decoded, branches)
      IN /\ Len(wider) = Len(nearbyMapped)
         /\ \A i \in 1..Len(nearbyMapped) :
              nearbyMapped[i] # NULL => wider[i] = nearbyMapped[i]
         /\ \A k \in 1..Len(nearbyBranches) :
              \E l \in 1..Len(FilterNonNull(wider)) :
                FilterNonNull(wider)[l] = nearbyBranches[k]

\* One row is returned with the call's threshold, and another row, not returned
\* with it, is returned with a larger one.
ThresholdMonotonicityWitness ==
  /\ pc = "nearby"
  /\ \E i, j \in 1..Len(nearbyMapped) :
       /\ nearbyMapped[i] # NULL
       /\ nearbyMapped[j] = NULL
       /\ \E t2 \in WiderThresholds :
            NearbyMapped(t2, decoded, branches)[j] # NULL


IndexBuilt == pc \in {"indexed", "candidates", "free", "returned"}

\* The car rows that are electric with a numeric range above the bound.
EligibleCars(bound) ==
  {k \in 1..Len(cars) :
     /\ cars[k].type = "electric"
     /\ cars[k].range_km.numeric
     /\ cars[k].range_km.v > bound}

HigherRanges ==
  {RANGE_THRESHOLD, RANGE_THRESHOLD + 1, RANGE_THRESHOLD + 50,
   RANGE_THRESHOLD + 51}

\* C12: the index holds exactly the trimmed ids of the car rows that are
\* electric with a numeric range strictly above RANGE_THRESHOLD; and the index
\* for any higher threshold holds no id that this one lacks.
EligibleEvIndex ==
  IndexBuilt =>
    /\ DOMAIN highRangeEvMap =
         {trim(cars[k].id.s) : k \in EligibleCars(RANGE_THRESHOLD)}
    /\ \A r2 \in HigherRanges :
         DOMAIN HighRangeEvMap(cars, r2) \subseteq DOMAIN highRangeEvMap

\* The index holds an id whose row wrote it with a blank, and lacks the id of a
\* row whose range equals the threshold.
EligibleEvIndexWitness ==
  /\ IndexBuilt
  /\ \E k, l \in 1..Len(cars) :
       /\ cars[k].id.def
       /\ cars[k].id.s # trim(cars[k].id.s)
       /\ trim(cars[k].id.s) \in DOMAIN highRangeEvMap
       /\ cars[l].id.def
       /\ cars[l].type = "electric"
       /\ cars[l].range_km = NumCell(RANGE_THRESHOLD)
       /\ trim(cars[l].id.s) \notin DOMAIN highRangeEvMap


\* Branch row i itself passed the proximity filter.
PassedProximity(i) == i \in DOMAIN nearbyMapped /\ nearbyMapped[i] # NULL

\* The 'E'-prefixed ids of row i's cars cell that are in the eligible-EV index,
\* in the cell's order, each paired with the row.
JoinOfRow(i) ==
  LET ids == SelectSeq(branches[i].cars.items,
                       LAMBDA id : /\ startsWith(trim(id), "E")
                                   /\ trim(id) \in DOMAIN highRangeEvMap)
  IN [j \in 1..Len(ids) |->
        <<branches[i].Name, parseFloat(branches[i].Lat),
          parseFloat(branches[i].Lng), trim(ids[j])>>]

RECURSIVE JoinFrom(_)
JoinFrom(i) ==
  IF i > Len(branches) THEN <<>>
  ELSE (IF PassedProximity(i) THEN JoinOfRow(i) ELSE <<>>) \o JoinFrom(i + 1)

\* C13: the candidates are exactly the pairs (branch row that passed the
\* proximity filter, 'E'-prefixed id of its cars cell that is in the
\* eligible-EV index), one candidate per pair, and no candidate belongs to a
\* row that did not pass the filter.
CrossProductJoin ==
  CandidatesBuilt =>
    [k \in 1..Len(candidates) |->
       <<candidates[k].branch, candidates[k].lat, candidates[k].lng,
         candidates[k].ev_id>>] = JoinFrom(1)


\* Row i's cars cell is a non-empty list none of whose ids starts with 'E'.
OnlyNonEvIds(i) ==
  /\ branches[i].cars.kind = "list"
  /\ Len(branches[i].cars.items) > 0
  /\ \A j \in 1..Len(branches[i].cars.items) :
       ~startsWith(trim(branches[i].cars.items[j]), "E")

\* C14 (Scenario D): a branch whose cars cell lists only ids without the 'E'
\* prefix is not among the branches with EVs, has no candidate and is not the
\* returned branch, whatever the proximity filter and the car rows say.
ScenarioD ==
  \A i \in 1..Len(branches) :
    OnlyNonEvIds(i) =>
      /\ \A k \in 1..Len(branchesWithEVs) :
           branchesWithEVs[k].branch # branches[i].Name
      /\ \A k \in 1..Len(candidates) : candidates[k].branch # branches[i].Name
      /\ ReturnedResult => result.branch # branches[i].Name

\* Such a branch passed the proximity filter, one of its ids names an electric
\* car in the eligible-EV index, and another branch is returned.
ScenarioDWitness ==
  /\ ReturnedResult
  /\ \E i \in 1..Len(branches) :
       /\ OnlyNonEvIds(i)
       /\ PassedProximity(i)
       /\ \E j \in 1..Len(branches[i].cars.items) :
            trim(branches[i].cars.items[j]) \in DOMAIN highRangeEvMap
       /\ result.branch # branches[i].Name


Present(ts) == ts.form \notin {"absent", "empty"}

\* The timestamp a trip row is booked under: the departure time when present,
\* otherwise the arrival time.
ChosenTime(trip) ==
  IF Present(trip.departure_time) THEN trip.departure_time
  ELSE trip.arrival_time

\* The trip row has a car id and a chosen timestamp that can be parsed.
Contributes(trip) ==
  /\ trip.car_id.def
  /\ trim(trip.car_id.s) # <<>>
  /\ Present(ChosenTime(trip))
  /\ Readable(ChosenTime(trip))

\* The dates the contributing trip rows of one car give, in row order.
DatesOf(id) ==
  LET rows == SelectSeq(trips, LAMBDA t : Contributes(t) /\ trim(t.car_id.s) = id)
  IN [k \in 1..Len(rows) |-> toLocalDate(ChosenTime(rows[k]), tz)]

\* C15: the booked-date index has a key for exactly the cars with a
\* contributing trip row, and a car's dates are one date per contributing row,
\* taken from the departure time if present, else from the arrival time; rows
\* with no time or an unparseable chosen time add nothing, and no error is
\* raised once the candidates exist (the index is built after them).
BookedDateIndex ==
  /\ BookingsRemoved =>
       /\ DOMAIN bookedMap =
            {trim(trips[t].car_id.s) :
               t \in {t \in 1..Len(trips) : Contributes(trips[t])}}
       /\ \A id \in DOMAIN bookedMap : bookedMap[id] = DatesOf(id)
  /\ pc = "threw" => candidates = <<>>

\* A row with both times is indexed under its departure date, which differs
\* from its arrival date, and a row whose departure time is unreadable adds
\* nothing although its arrival time is readable.
BookedDateIndexWitness ==
  /\ BookingsRemoved
  /\ \E t, u \in 1..Len(trips) :
       /\ Contributes(trips[t])
       /\ Present(trips[t].arrival_time)
       /\ Readable(trips[t].arrival_time)
       /\ toLocalDate(trips[t].arrival_time, tz)
            # toLocalDate(trips[t].departure_time, tz)
       /\ bookedMap[trim(trips[t].car_id.s)]
            = <<toLocalDate(trips[t].departure_time, tz)>>
       /\ trips[u].departure_time = BadTime
       /\ Readable(trips[u].arrival_time)
       /\ trim(trips[u].car_id.s) = trim(trips[t].car_id.s)


\* The serialized-array cells of the loaded rows.
LoadedCells ==
  {branches[i].cars : i \in 1..Len(branches)}
    \cup {cars[k].trips_ids : k \in 1..Len(cars)}

\* C16: once the cars cells have been consumed (step 3), every cell has parsed
\* to a list of strings, the empty list unless the cell is a well-formed list,
\* and no error was raised over any cell.
SerializedArrayCells ==
  pc \notin {"loaded", "nearby"} =>
    /\ \A cell \in LoadedCells :
         /\ parseStringArray(cell).isArray
         /\ cell.kind # "list" => parseStringArray(cell).items = <<>>
    /\ pc # "threw"


Thrown == [threw |-> TRUE, value |-> NULL]

Value(v) == [threw |-> FALSE, value |-> v]

\* What the call's arguments give on other rows: the value returned, or Thrown.
OutcomeOn(brs, crs, trs) ==
  IF \E i \in 1..Len(brs) : CarsCellThrows(brs[i]) THEN Thrown
  ELSE IF \E k \in 1..Len(crs) : CarIdThrows(crs[k], RANGE_THRESHOLD) THEN Thrown
  ELSE LET nearby == FilterNonNull(
                       NearbyMapped(DISTANCE_THRESHOLD, DecodedPath(encoded), brs))
           cands == Candidates(BranchesWithEVs(nearby, brs),
                               HighRangeEvMap(crs, RANGE_THRESHOLD))
           free == FreeCandidates(cands, BookedMap(trs, tz), toLocalDate(TIME, tz))
       IN IF Len(free) = 0 THEN Value(NULL)
          ELSE Value(PickBest([k \in 1..Len(free) |-> Scored(free[k])]))

Without(rows, i) == SubSeq(rows, 1, i - 1) \o SubSeq(rows, i + 1, Len(rows))

Finished == pc \in {"returned", "threw"}

Outcome == IF pc = "threw" THEN Thrown ELSE Value(result)

\* Rows with a missing or unparseable field.
BranchRowHasGap(i) == ~branches[i].Lat.numeric \/ ~branches[i].Lng.numeric

CarRowHasGap(k) == ~cars[k].range_km.numeric \/ ~cars[k].id.def

TripRowHasGap(t) == ~Contributes(trips[t])

\* C17: the call does not throw, and its result is the one the same call gives
\* when any one row with a missing or unparseable field is left out.
GracefulDegradation ==
  Finished =>
    /\ pc # "threw"
    /\ \A i \in 1..Len(branches) :
         BranchRowHasGap(i) => Outcome = OutcomeOn(Without(branches, i), cars, trips)
    /\ \A k \in 1..Len(cars) :
         CarRowHasGap(k) => Outcome = OutcomeOn(branches, Without(cars, k), trips)
    /\ \A t \in 1..Len(trips) :
         TripRowHasGap(t) => Outcome = OutcomeOn(branches, cars, Without(trips, t))


\* The ids of the car rows that are electric with a range above RANGE_THRESHOLD.
EligibleIds ==
  {trim(cars[k].id.s) :
     k \in {k \in EligibleCars(RANGE_THRESHOLD) : cars[k].id.def}}

\* The eligible EVs branch row i holds.
EligibleEvsOf(i) ==
  {trim(branches[i].cars.items[j]) :
     j \in {j \in 1..Len(branches[i].cars.items) :
              /\ startsWith(trim(branches[i].cars.items[j]), "E")
              /\ trim(branches[i].cars.items[j]) \in EligibleIds}}

\* The path is degenerate, or no branch passes the proximity filter, or no
\* nearby branch holds an eligible EV, or every eligible EV of every nearby
\* branch is booked on the target date.
NothingAvailable ==
  \/ Len(DecodedPath(encoded)) < 2
  \/ \A i \in 1..Len(branches) :
       PassedProximity(i) =>
         \A id \in EligibleEvsOf(i) : BookedOnTargetDate(id)

\* C18: in each of the empty cases the call returns null and does not throw,
\* and null is returned only when the free-candidate list is empty.
EmptyResult ==
  Finished =>
    /\ NothingAvailable => pc = "returned" /\ result = NULL
    /\ (pc = "returned" /\ result = NULL) => freeCandidates = <<>>


ResultShape ==
  ReturnedResult =>
    /\ "branch" \in DOMAIN result
    /\ "Name" \in DOMAIN result
    /\ result.Name = result.branch


(* ================== properties of the later claims ==================== *)

\* C21: as the doc comment of findNearbyBranchesFromPolyline says, the
\* results are exactly the branch rows with numeric coordinates whose lateral
\* distance to the route is at most DISTANCE_THRESHOLD and whose distance from
\* the starting point is at most the start-to-end distance.
DocCommentBound ==
  NearbyEvaluated =>
    \A i \in 1..Len(branches) :
      Returned(i) <=>
        /\ RowNumeric(i)
        /\ LateralOf(i) <= DISTANCE_THRESHOLD
        /\ StartToRow(i) <= StartToEnd

UniqueNames ==
  \A i, j \in 1..Len(branches) : i # j => branches[i].Name # branches[j].Name

\* No branch row with numeric coordinates lies on a point of the path.
NoBranchOnPath ==
  \A i \in 1..Len(branches) :
    RowNumeric(i) =>
      \A k \in 1..Len(DecodedPath(encoded)) :
        DecodedPath(encoded)[k] # RowCoords(i)

\* C25: with unique branch names and no branch on a path point, the returned
\* candidate is the first candidate of the list (branch row order, then the
\* order of the ids in the cars cell) whose EV no trip row books on the target
\* date.
FirstFreeCandidateWins ==
  (pc = "returned" /\ UniqueNames /\ NoBranchOnPath) =>
    LET open == {k \in 1..Len(candidates) :
                   ~BookedOnTargetDate(candidates[k].ev_id)}
    IN IF open = {} THEN result = NULL
       ELSE /\ result # NULL
            /\ result.branch = candidates[SetMin(open)].branch
            /\ result.ev_id = candidates[SetMin(open)].ev_id

\* C26: every candidate has the coordinates of a branch row of its name that
\* itself passed the proximity filter, and the distance and nearest point that
\* were computed for that row.
CandidateFromPassingRow ==
  CandidatesBuilt =>
    \A k \in 1..Len(candidates) :
      \E i \in 1..Len(branches) :
        /\ PassedProximity(i)
        /\ branches[i].Name = candidates[k].branch
        /\ parseFloat(branches[i].Lat) = candidates[k].lat
        /\ parseFloat(branches[i].Lng) = candidates[k].lng
        /\ candidates[k].distanceToRoute_meters = LateralOf(i)
        /\ candidates[k].minDistanceLocation =
             decoded[FirstPointAt(i, LateralOf(i))]

\* C27: the desired date computed from a date-only TIME is that date, in every
\* time zone of the process.
DateOnlyIdentity ==
  (BookingsRemoved /\ TIME.form = "date") => desiredDate = TIME.day

(* ------------------ properties of POST /api/plan-trip ----------------- *)

\* The selection of the request being handled has ended.
SelectionFinished == hpc \in {"legs", "done"} /\ encodedAB # <<>>

NoBranchFound == SelectionFinished /\ pc = "returned" /\ result = NULL

BranchFound == SelectionFinished /\ pc = "returned" /\ result # NULL

\* The two ends of each request sent so far.
IssuedEnds ==
  [k \in 1..Len(issued) |-> <<issued[k].origin, issued[k].destination>>]

\* C23: when the selection finds no branch the handler answers with the
\* polyline the service gave for A -> B and branch null, having sent only the
\* A -> B request; when it finds one, the handler has sent after A -> B exactly
\* the four legs A -> branch, branch -> B, B -> branch, branch -> A, and none
\* of them before the selection ended.
HandlerRequests ==
  /\ (hpc \in {"received", "routeAB", "select"}) =>
       \/ IssuedEnds = <<>>
       \/ IssuedEnds = <<<<PlaceA, PlaceB>>>>
  /\ NoBranchFound =>
       /\ IssuedEnds = <<<<PlaceA, PlaceB>>>>
       /\ responses = <<[status |-> 200, mergedEncoded |-> settled[1].polyline,
                         branch |-> NULL]>>
  /\ BranchFound =>
       LET at == [place |-> "branch", lat |-> result.lat, lng |-> result.lng]
       IN IssuedEnds = <<<<PlaceA, PlaceB>>, <<PlaceA, at>>, <<at, PlaceB>>,
                         <<PlaceB, at>>, <<at, PlaceA>>>>

HandlerRequestsWitness ==
  /\ BranchFound
  /\ hpc = "done"
  /\ Len(issued) = 5
  /\ responses[1].status = 200

\* The handler answered 200 with a branch: both outward legs had a polyline.
MergedAnswer == hpc = "done" /\ BranchFound /\ responses[1].status = 200

\* C24: the merged polyline decodes to the points of A -> branch followed by
\* the points of branch -> B without the first, |A| + |B| - 1 points, and the
\* point left out equals the last point of A -> branch.
MergedOnce ==
  MergedAnswer =>
    LET ptsA == PolylineDecode(settled[2].polyline)
        ptsB == PolylineDecode(settled[3].polyline)
        merged == PolylineDecode(responses[1].mergedEncoded)
    IN /\ merged = ptsA \o Tail(ptsB)
       /\ Len(merged) = Len(ptsA) + Len(ptsB) - 1
       /\ ptsB[1] = ptsA[Len(ptsA)]

\* C28: whenever a request's selection runs, the date it tests availability
\* against is the calendar date of that moment, also when the request is
\* handled on a later day than the one on which the module was loaded.
FreshTripDate == hpc = "select" => TIME = DateOnly(clock)

\* A step of POST or of the selection it awaits.
HandlerStep ==
  \/ Validate
  \/ RouteABSettles
  \/ FindNearbyBranches
  \/ FilterBranchesWithEVs
  \/ IndexHighRangeEVs
  \/ BuildCandidates
  \/ RemoveBooked
  \/ ScoreAndPick
  \/ SelectionSettles
  \/ LegsSettle

\* The status the request being handled is to be answered with.
ExpectedStatus ==
  IF request.body = "unparseable" THEN 500
  ELSE IF ~request.origin \/ ~request.destination THEN 400
  ELSE IF ~apiKey THEN 500
  ELSE IF \E k \in 1..Len(settled) : ~settled[k].ok THEN 500
  ELSE IF MissingPolyline(settled[1]) THEN 500
  ELSE IF pc = "threw" THEN 500
  ELSE IF result = NULL THEN 200
  ELSE IF MissingPolyline(settled[2]) \/ MissingPolyline(settled[3]) THEN 500
  ELSE 200

\* C29: a request that is being handled has no response yet and a step to
\* take; one that has been handled has exactly one response, with status 400
\* when origin or destination is missing (and then no directions request was
\* sent), 500 when the body cannot be parsed, the API key is missing, a
\* directions request failed, the A -> B, A -> branch or branch -> B polyline
\* is missing or the selection threw, and 200 otherwise.
OneResponse ==
  /\ (hpc \notin {"idle", "done"}) =>
       /\ responses = <<>>
       /\ ENABLED HandlerStep
  /\ (hpc = "done") =>
       /\ Len(responses) = 1
       /\ responses[1].status = ExpectedStatus
       /\ (responses[1].status = 400) => issued = <<>>

(* ---------------- properties of planTripWithBestBranch ---------------- *)

\* C22: when the selection finds no branch the planner returns branch null
\* and three null legs, has sent no directions request, and does so with or
\* without an API key; when it returns a branch it has requested exactly
\* A -> branch, branch -> B, B -> branch, in that order, and the three legs
\* are non-null; it never requests anything else; after a failed leg request
\* it has thrown, and unless it returned there is no result at all.
AllOrNothing ==
  /\ (pc = "returned" /\ result = NULL /\ ppc # "select") =>
       /\ ppc = "returned"
       /\ plan = [branch |-> NULL, legToBranch |-> NULL,
                  legBranchToDest |-> NULL, legDestToBranch |-> NULL]
       /\ issued = <<>>
  /\ (ppc = "returned" /\ result # NULL) =>
       LET at == [place |-> "branch", lat |-> result.lat, lng |-> result.lng]
       IN /\ plan.branch = result
          /\ plan.legToBranch # NULL
          /\ plan.legBranchToDest # NULL
          /\ plan.legDestToBranch # NULL
          /\ IssuedEnds = <<<<PlaceA, at>>, <<at, PlaceB>>, <<PlaceB, at>>>>
  /\ (issued # <<>>) =>
       LET at == [place |-> "branch", lat |-> result.lat, lng |-> result.lng]
       IN /\ Len(issued) <= 3
          /\ IssuedEnds =
               SubSeq(<<<<PlaceA, at>>, <<at, PlaceB>>, <<PlaceB, at>>>>, 1,
                      Len(issued))
  /\ (\E k \in 1..Len(settled) : LegFailed(settled[k])) => ppc = "threw"
  /\ (ppc # "returned") => plan = NULL

AllOrNothingWitness ==
  /\ ppc = "returned"
  /\ result # NULL
  /\ Len(issued) = 3
  /\ plan.branch = result

(* ----------------------- properties of TripForm ----------------------- *)

\* C30: loading is true while some handleClick has not completed and false
\* once all have, and what is then displayed is what the most recent click
\* produced (nothing, when that click ended without routes).
LoadingTracksRequests ==
  /\ (Pending # {}) => loading
  /\ (Pending = {}) =>
       /\ ~loading
       /\ displayed \in {0, clicks}

====
